---------------------------- MODULE Spec2Model ----------------------------
(***************************************************************************)
(* Model of the chunked AES-GCM file processor of                          *)
(* src/src/lib/fileProcessor.ts (class FileProcessor, lines 1-272).        *)
(*                                                                         *)
(* Scale.  Sizes are counted in units of 512 KiB, and a file's content is  *)
(* one model byte per unit: CHUNK_SIZE, MAX_FILE_SIZE and MAX_TOTAL_SIZE   *)
(* keep the source's values in that unit.  The nonce (12 bytes) and the    *)
(* GCM tag (16 bytes) are one unit each, so that, as in the source,        *)
(* 0 < IV_LENGTH + TAG_LENGTH < CHUNK_SIZE < MAX_FILE_SIZE < MAX_TOTAL_SIZE.*)
(*                                                                         *)
(* Numbers.  The source computes progress in IEEE doubles; the model       *)
(* computes the same expressions in exact rationals (records [n, d]).      *)
(*                                                                         *)
(* Scheduling.  Every await of the source is a point where other handlers  *)
(* may run.  A chunk operation (read, key check, transform, push, progress *)
(* callback) is one step, taken when its transform settles: the read and   *)
(* the key check have no effect of their own, and a key once set stays set.*)
(***************************************************************************)
EXTENDS Integers, Sequences, FiniteSets, TLC

(***************************************************************************)
(* Program constants (scaled as described above).                          *)
(***************************************************************************)
CHUNK_SIZE == 4
MAX_FILE_SIZE == 200
MAX_TOTAL_SIZE == 1000
IV_LENGTH == 1
TAG_LENGTH == 1

(***************************************************************************)
(* Bounds of the model.                                                    *)
(***************************************************************************)
HardwareConcurrency == 2
MaxFiles == 3
MaxChunks == 2
MaxPlainLen == 10
MaxCodecLen == 3
MaxSplitSize == 60
MaxHint == 64
MaxXorLen == 6

(***************************************************************************)
(* WORKER_POOL_SIZE = Math.max(2, Math.min(navigator.hardwareConcurrency   *)
(* || 4, 8)); a hint of 0 stands for an undefined hint (both are falsy).   *)
(***************************************************************************)
Max(a, b) == IF a >= b THEN a ELSE b
Min(a, b) == IF a <= b THEN a ELSE b

\* a variant without the default: Math.max(2, Math.min(hint, 8))
PoolSizeNoDefault(hint) == Max(2, Min(hint, 8))

PoolSize(hint) == Max(2, Min(IF hint = 0 THEN 4 ELSE hint, 8))

WORKER_POOL_SIZE == PoolSize(HardwareConcurrency)

(***************************************************************************)
(* Bytes.  AES-GCM is modelled as an ideal authenticated cipher: a byte of *)
(* the output of an encryption names the key, the nonce and the plaintext  *)
(* it was made from, and a decryption succeeds exactly on the output of an *)
(* encryption under the same key.  All bytes are records of one shape.     *)
(***************************************************************************)
Plain(v) == [kind |-> "plain", v |-> v, key |-> 0, iv |-> 0, of |-> <<>>]
IvByte(iv, j) == [kind |-> "iv", v |-> j, key |-> 0, iv |-> iv, of |-> <<>>]
CtByte(key, iv, j, b) == [kind |-> "ct", v |-> j, key |-> key, iv |-> iv, of |-> <<b>>]
TagByte(key, iv, j, data) == [kind |-> "tag", v |-> j, key |-> key, iv |-> iv, of |-> data]

Slice(data, start, end) ==
    \* ArrayBuffer.slice / Blob.slice with 0-based start, exclusive end
    LET e == Min(end, Len(data))
    IN IF start >= e THEN <<>> ELSE SubSeq(data, start + 1, e)

RECURSIVE Concat(_)
Concat(seqs) == IF seqs = <<>> THEN <<>> ELSE Head(seqs) \o Concat(Tail(seqs))

\* crypto.subtle.encrypt({name: 'AES-GCM', iv}, key, data): ciphertext || tag
GcmEncrypt(data, key, iv) ==
    [j \in 1..Len(data) |-> CtByte(key, iv, j, data[j])]
      \o [j \in 1..TAG_LENGTH |-> TagByte(key, iv, j, data)]

\* encryptData: iv || ciphertext || tag
encryptData(data, key, iv) ==
    [j \in 1..IV_LENGTH |-> IvByte(iv, j)] \o GcmEncrypt(data, key, iv)

Failure == [ok |-> FALSE, data |-> <<>>]
Success(data) == [ok |-> TRUE, data |-> data]

\* crypto.subtle.decrypt: the plaintext, or a failure when the tag does not verify
GcmDecrypt(content, key, ivBytes) ==
    LET n == Len(content) - TAG_LENGTH
    IN IF n < 0 \/ Len(ivBytes) # IV_LENGTH THEN Failure
       ELSE IF \E j \in 1..n : content[j].kind # "ct" THEN Failure
       ELSE LET plain == [j \in 1..n |-> content[j].of[1]]
                iv == ivBytes[1].iv
            IN IF /\ ivBytes = [j \in 1..IV_LENGTH |-> IvByte(iv, j)]
                  /\ content = GcmEncrypt(plain, key, iv)
               THEN Success(plain)
               ELSE Failure

\* a variant that hands the whole input to crypto.subtle.decrypt
decryptDataNoSplit(data, key) ==
    GcmDecrypt(data, key, Slice(data, 0, IV_LENGTH))

\* decryptData: iv = data.slice(0, 12), encryptedContent = data.slice(12)
decryptData(data, key) ==
    GcmDecrypt(Slice(data, IV_LENGTH, Len(data)), key, Slice(data, 0, IV_LENGTH))

(***************************************************************************)
(* Rationals for the progress arithmetic.                                  *)
(***************************************************************************)
RECURSIVE Gcd(_, _)
Gcd(a, b) == IF b = 0 THEN a ELSE Gcd(b, a % b)

Rat(n, d) == LET g == Gcd(n, d) IN [n |-> n \div g, d |-> d \div g]
RatAdd(x, y) == Rat(x.n * y.d + y.n * x.d, x.d * y.d)
RatMul(x, k) == Rat(x.n * k, x.d)
RatDiv(x, k) == Rat(x.n, x.d * k)
RatLeq(x, y) == x.n * y.d <= y.n * x.d
RatMin(x, y) == IF RatLeq(x, y) THEN x ELSE y
Hundred == Rat(100, 1)
Zero == Rat(0, 1)

\* (processedChunks / totalChunks) * 100
chunkProgress(processedChunks, totalChunks) ==
    RatMul(Rat(processedChunks, totalChunks), 100)

\* a variant that forgets to divide the chunk progress by the number of files
fileProgressUndivided(index, totalFiles, cp) ==
    RatMin(RatAdd(RatMul(Rat(index, totalFiles), 100), cp), Hundred)

\* Math.min((index / totalFiles) * 100 + (chunkProgress / totalFiles), 100)
fileProgress(index, totalFiles, cp) ==
    RatMin(RatAdd(RatMul(Rat(index, totalFiles), 100), RatDiv(cp, totalFiles)), Hundred)

(***************************************************************************)
(* Files.  name is a sequence of characters; size is File.size; data are   *)
(* the bytes arrayBuffer() returns (left out for the files over the        *)
(* per-file cap, which the code never reads).  A null entry of the list    *)
(* is NullFile.                                                            *)
(***************************************************************************)
Lower == {"a","b","c","d","e","f","g","h","i","j","k","l","m",
          "n","o","p","q","r","s","t","u","v","w","x","y","z"}
Upper == {"A","B","C","D","E","F","G","H","I","J","K","L","M",
          "N","O","P","Q","R","S","T","U","V","W","X","Y","Z"}
Digit == {"0","1","2","3","4","5","6","7","8","9"}

\* the character class [a-zA-Z0-9-_. ]
SafeChars == Lower \cup Upper \cup Digit \cup {"-", "_", ".", " "}

\* /^[a-zA-Z0-9-_. ]+$/
safeFilenameRegex(name) ==
    /\ Len(name) > 0
    /\ \A j \in 1..Len(name) : name[j] \in SafeChars

File(name, size, data) == [null |-> FALSE, name |-> name, size |-> size, data |-> data]
NullFile == [null |-> TRUE, name |-> <<>>, size |-> 0, data |-> <<>>]

NoError == [msg |-> "", file |-> <<>>, cause |-> ""]
Err(msg, file, cause) == [msg |-> msg, file |-> file, cause |-> cause]

\* a variant without the file name check
validateFileNoNameCheck(file) ==
    IF file.null THEN Err("invalid file", <<>>, "")
    ELSE IF file.size > MAX_FILE_SIZE THEN Err("file exceeds the 100MB limit", file.name, "")
    ELSE NoError

\* validateFile: NoError when the file passes, else the error thrown
validateFile(file) ==
    IF file.null THEN Err("invalid file", <<>>, "")
    ELSE IF file.size > MAX_FILE_SIZE THEN Err("file exceeds the 100MB limit", file.name, "")
    ELSE IF ~safeFilenameRegex(file.name) THEN Err("file name has unsafe characters", file.name, "")
    ELSE NoError

\* a variant whose loop condition is start <= file.size
RECURSIVE ChunkStartsFromInclusive(_, _)
ChunkStartsFromInclusive(start, size) ==
    IF start > size THEN <<>>
    ELSE <<start>> \o ChunkStartsFromInclusive(start + CHUNK_SIZE, size)

\* for (let start = 0; start < file.size; start += CHUNK_SIZE)
RECURSIVE ChunkStartsFrom(_, _)
ChunkStartsFrom(start, size) ==
    IF start >= size THEN <<>>
    ELSE <<start>> \o ChunkStartsFrom(start + CHUNK_SIZE, size)

ChunkStarts(size) == ChunkStartsFrom(0, size)

\* a variant that rounds down: Math.floor(file.size / CHUNK_SIZE)
totalChunksFloor(size) == size \div CHUNK_SIZE

\* Math.ceil(file.size / CHUNK_SIZE)
totalChunks(size) == (size + CHUNK_SIZE - 1) \div CHUNK_SIZE

\* file.slice(start, Math.min(start + CHUNK_SIZE, file.size)).arrayBuffer()
ReadChunk(file, start) == Slice(file.data, start, Min(start + CHUNK_SIZE, file.size))


(***************************************************************************)
(* The inputs the model draws from.                                        *)
(***************************************************************************)
SafeName == <<"a", ".", "t">>
UnsafeName == <<"a", "/", "t">>

PlainData(n) == [j \in 1..n |-> Plain(j)]

EmptyFile == File(SafeName, 0, <<>>)
OneChunkFile == File(SafeName, 2, PlainData(2))
TwoChunkFile == File(SafeName, CHUNK_SIZE + 1, PlainData(CHUNK_SIZE + 1))
UnsafeFile == File(UnsafeName, 1, PlainData(1))
HugeFile == File(SafeName, MAX_TOTAL_SIZE, <<>>)

FileKinds == {NullFile, EmptyFile, OneChunkFile, TwoChunkFile, UnsafeFile, HugeFile}

RECURSIVE SeqsUpTo(_, _)
SeqsUpTo(S, n) ==
    IF n = 0 THEN {<<>>}
    ELSE LET shorter == SeqsUpTo(S, n - 1)
         IN shorter \cup {Append(s, x) : s \in {q \in shorter : Len(q) = n - 1}, x \in S}

\* the files argument: a list of files, or something that is no list
List(items) == [isArray |-> TRUE, items |-> items]
NotAList == [isArray |-> FALSE, items |-> <<>>]

Modes == {"encrypt", "decrypt"}
\* the calls of processFiles the model follows: a first and a second one
Calls == {1, 2}
TaskIds == Calls \X (1..MaxFiles)

(***************************************************************************)
(* State.                                                                  *)
(*   key, keyGen       this.key (0 is null) and the state of the           *)
(*                     generateKey() the constructor started               *)
(*   processingQueue   this.processingQueue, as the ids <<call, index>> of *)
(*                     the queued task closures                            *)
(*   activeProcesses   this.activeProcesses                                *)
(*   call              per processFiles call: its arguments (isArray is    *)
(*                     whether files is a list) and whether                *)
(*                     its promise is pending, resolved or rejected        *)
(*   results           per call, the results array; a slot also counts     *)
(*                     the assignments made to it                          *)
(*   task              per task closure: its position, and the locals of   *)
(*                     its processFileInChunks (chunks, processedChunks,   *)
(*                     and the state of each chunk promise)                *)
(*   progress          per call, the number of onProgress invocations and  *)
(*                     the last value passed                               *)
(*   harness           the arguments and results of the module-level       *)
(*                     functions when they are applied on their own        *)
(***************************************************************************)
VARIABLES key, keyGen, processingQueue, activeProcesses, call, results, task, progress,
          harness

vars == <<key, keyGen, processingQueue, activeProcesses, call, results, task, progress,
          harness>>

IdleCall == [status |-> "idle", isArray |-> TRUE, files |-> <<>>, mode |-> "encrypt",
             cb |-> FALSE, error |-> ""]
NoTask == [st |-> "none", chunkSt |-> <<>>, chunks |-> <<>>, processedChunks |-> 0]
EmptySlot == [status |-> "empty", originalFile |-> NullFile, hasFile |-> FALSE,
              processedFile |-> <<>>, error |-> NoError, writes |-> 0]
NoProgress == [count |-> 0, last |-> Zero]
NoHarness == [st |-> "none"]

\* new FileProcessor(): key null, generateKey() pending, empty queue
Init ==
    /\ key = 0
    /\ keyGen = "pending"
    /\ processingQueue = <<>>
    /\ activeProcesses = 0
    /\ call = [c \in Calls |-> IdleCall]
    /\ results = [c \in Calls |-> <<>>]
    /\ task = [t \in TaskIds |-> NoTask]
    /\ progress = [c \in Calls |-> NoProgress]
    /\ harness = NoHarness

(***************************************************************************)
(* initializeKey                                                           *)
(***************************************************************************)
\* this.key = await generateKey()
InitializeKeyDone ==
    /\ keyGen = "pending"
    /\ key' = 1
    /\ keyGen' = "ready"
    /\ UNCHANGED <<processingQueue, activeProcesses, call, results, task, progress, harness>>

\* generateKey() throws: initializeKey rejects, this.key stays null
InitializeKeyFails ==
    /\ keyGen = "pending"
    /\ keyGen' = "failed"
    /\ UNCHANGED <<key, processingQueue, activeProcesses, call, results, task, progress,
                   harness>>

(***************************************************************************)
(* The task closure and processQueue, as operators on the part S of the    *)
(* state they change: [queue, active, task, results]; cl is the call       *)
(* record the task closes over.                                            *)
(***************************************************************************)
\* results[index] = {originalFile, processedFile, status: 'success'}
WriteSuccess(slot, file, data) ==
    [status |-> "success", originalFile |-> file, hasFile |-> TRUE,
     processedFile |-> data, error |-> NoError, writes |-> slot.writes + 1]

\* results[index] = {originalFile, error, status: 'error'}
WriteError(slot, file, e) ==
    [status |-> "error", originalFile |-> file, hasFile |-> FALSE,
     processedFile |-> <<>>, error |-> e, writes |-> slot.writes + 1]

\* a variant whose catch records nothing before resolve()
TaskCatchSwallow(S, t, file, e) ==
    [S EXCEPT !.task[t].st = "settled"]

\* the catch of the task closure, followed by resolve()
TaskCatch(S, t, file, e) ==
    [S EXCEPT !.results[t[1]][t[2]] = WriteError(@, file, e),
              !.task[t].st = "settled"]

\* a variant that writes every success to the first slot
TaskReturnFirstSlot(S, t, file) ==
    [S EXCEPT !.results[t[1]][1] = WriteSuccess(@, file, Concat(S.task[t].chunks)),
              !.task[t].st = "settled"]

\* processFileInChunks returned: the success branch of the task closure, then resolve()
TaskReturn(S, t, file) ==
    [S EXCEPT !.results[t[1]][t[2]] = WriteSuccess(@, file, Concat(S.task[t].chunks)),
              !.task[t].st = "settled"]

\* task(): the synchronous part, up to the first await that suspends it
StartTask(S, t, cl) ==
    LET file == cl.files[t[2]]
        e == validateFile(file)
        starts == ChunkStarts(file.size)
        S1 == [S EXCEPT !.task[t] = [st |-> "running",
                                     chunkSt |-> [k \in 1..Len(starts) |-> "pending"],
                                     chunks |-> <<>>,
                                     processedChunks |-> 0]]
    IN IF e # NoError THEN TaskCatch([S EXCEPT !.task[t].st = "running"], t, file, e)
       ELSE IF starts = <<>> THEN TaskReturn(S1, t, file)
       ELSE S1

\* a variant that takes the task with pop() instead of shift()
processQueueLifo(S, calls) ==
    IF Len(S.queue) > 0 /\ S.active < WORKER_POOL_SIZE
    THEN LET t == S.queue[Len(S.queue)]
         IN StartTask([S EXCEPT !.queue = SubSeq(@, 1, Len(@) - 1), !.active = @ + 1],
                      t, calls[t[1]])
    ELSE S

\* a variant whose loop condition is activeProcesses <= WORKER_POOL_SIZE
processQueueOffByOne(S, calls) ==
    IF Len(S.queue) > 0 /\ S.active <= WORKER_POOL_SIZE
    THEN LET t == Head(S.queue)
         IN StartTask([S EXCEPT !.queue = Tail(@), !.active = @ + 1], t, calls[t[1]])
    ELSE S

\* processQueue(), up to its first await: admits at most one task
processQueue(S, calls) ==
    IF Len(S.queue) > 0 /\ S.active < WORKER_POOL_SIZE
    THEN LET t == Head(S.queue)
         IN StartTask([S EXCEPT !.queue = Tail(@), !.active = @ + 1], t, calls[t[1]])
    ELSE S

MachineState == [queue |-> processingQueue, active |-> activeProcesses,
                 task |-> task, results |-> results]

SetMachine(S) ==
    /\ processingQueue' = S.queue
    /\ activeProcesses' = S.active
    /\ task' = S.task
    /\ results' = S.results


(***************************************************************************)
(* processFiles                                                            *)
(***************************************************************************)
RECURSIVE SumSizes(_)
SumSizes(files) == IF files = <<>> THEN 0 ELSE Head(files).size + SumSizes(Tail(files))

\* a variant without the check of lines 185-187
PreflightNoListCheck(input) ==
    IF \E i \in 1..Len(input.items) : input.items[i].null THEN "TypeError"
    ELSE IF SumSizes(input.items) > MAX_TOTAL_SIZE THEN "total size exceeds the 500MB limit"
    ELSE ""

\* a variant whose cap check is totalSize >= 500 MiB
PreflightCapInclusive(input) ==
    IF ~input.isArray \/ Len(input.items) = 0 THEN "no files selected"
    ELSE IF \E i \in 1..Len(input.items) : input.items[i].null THEN "TypeError"
    ELSE IF SumSizes(input.items) >= MAX_TOTAL_SIZE THEN "total size exceeds the 500MB limit"
    ELSE ""

\* what the pre-flight part of processFiles throws ("" when it throws nothing);
\* files.reduce((sum, file) => sum + file.size, 0) reads .size of a null entry
Preflight(input) ==
    IF ~input.isArray \/ Len(input.items) = 0 THEN "no files selected"
    ELSE IF \E i \in 1..Len(input.items) : input.items[i].null THEN "TypeError"
    ELSE IF SumSizes(input.items) > MAX_TOTAL_SIZE THEN "total size exceeds the 500MB limit"
    ELSE ""

\* files.map(...): per file, in index order, push the task and call processQueue()
RECURSIVE SubmitAll(_, _, _, _)
SubmitAll(S, calls, c, i) ==
    IF i > Len(calls[c].files) THEN S
    ELSE SubmitAll(processQueue([S EXCEPT !.queue = Append(@, <<c, i>>),
                                          !.task[<<c, i>>].st = "queued"], calls),
                   calls, c, i + 1)

\* processFiles(files, mode, onProgress), up to await Promise.all(tasks)
ProcessFilesWith(c, input, mode, cb) ==
    /\ call[c].status = "idle"
    /\ LET e == Preflight(input)
       IN IF e # ""
          THEN /\ call' = [call EXCEPT ![c] = [status |-> "rejected",
                                               isArray |-> input.isArray,
                                               files |-> input.items,
                                               mode |-> mode, cb |-> cb, error |-> e]]
               /\ UNCHANGED <<processingQueue, activeProcesses, task, results>>
          ELSE /\ call' = [call EXCEPT ![c] = [status |-> "pending",
                                               isArray |-> input.isArray,
                                               files |-> input.items,
                                               mode |-> mode, cb |-> cb, error |-> ""]]
               /\ SetMachine(SubmitAll(
                     [MachineState EXCEPT
                        !.results[c] = [i \in 1..Len(input.items) |-> EmptySlot]],
                     call', c, 1))
    /\ UNCHANGED <<key, keyGen, progress, harness>>

\* the chunk operations a list of files gives rise to when every file is read
RECURSIVE ChunkCount(_)
ChunkCount(files) ==
    IF files = <<>> THEN 0
    ELSE (IF validateFile(Head(files)) = NoError THEN Len(ChunkStarts(Head(files).size)) ELSE 0)
         + ChunkCount(Tail(files))

Inputs ==
    {NotAList} \cup {List(fs) : fs \in {q \in SeqsUpTo(FileKinds, MaxFiles) :
                                             ChunkCount(q) <= MaxChunks}}

\* one call on the instance, with any of the inputs
ProcessFiles ==
    /\ call[1].status = "idle"
    /\ \E input \in Inputs, mode \in Modes, cb \in BOOLEAN :
          ProcessFilesWith(1, input, mode, cb)

\* await Promise.all(tasks); return results
ProcessFilesResolve(c) ==
    /\ call[c].status = "pending"
    /\ \A i \in 1..Len(call[c].files) : task[<<c, i>>].st \in {"settled", "done"}
    /\ call' = [call EXCEPT ![c].status = "resolved"]
    /\ UNCHANGED <<key, keyGen, processingQueue, activeProcesses, results, task, progress,
                   harness>>

(***************************************************************************)
(* processQueue after await task(): the finally block, then the while loop *)
(***************************************************************************)
\* a variant that frees the slot and returns, without draining the backlog
ProcessQueueResumeNoDrain(t) ==
    /\ task[t].st = "settled"
    /\ SetMachine([MachineState EXCEPT !.active = @ - 1, !.task[t].st = "done"])
    /\ UNCHANGED <<key, keyGen, call, progress, harness>>

\* a variant whose finally block does not decrement activeProcesses
ProcessQueueResumeNoDecrement(t) ==
    /\ task[t].st = "settled"
    /\ LET S1 == [MachineState EXCEPT !.task[t].st = "done"]
           S2 == processQueue(S1, call)
           S3 == processQueue(S2, call)
       IN SetMachine(S3)
    /\ UNCHANGED <<key, keyGen, call, progress, harness>>

ProcessQueueResume(t) ==
    /\ task[t].st = "settled"
    /\ LET S1 == [MachineState EXCEPT !.active = @ - 1, !.task[t].st = "done"]
           S2 == processQueue(S1, call)     \* this.processQueue() in finally
           S3 == processQueue(S2, call)     \* the while loop of this invocation
       IN SetMachine(S3)
    /\ UNCHANGED <<key, keyGen, call, progress, harness>>

(***************************************************************************)
(* processNextChunk: one chunk operation of processFileInChunks            *)
(***************************************************************************)
\* the nonce crypto.getRandomValues draws for chunk k of task t: every draw is
\* taken to be distinct, and is named by the chunk operation that makes it
FreshIv(t, k) == t[1] * 100 + t[2] * 10 + k

FileOf(t) == call[t[1]].files[t[2]]

ChunkPending(t, k) ==
    /\ task[t].st \in {"running", "settled", "done"}
    /\ k \in 1..Len(task[t].chunkSt)
    /\ task[t].chunkSt[k] = "pending"

\* processChunk(chunk, mode) with this.key set
processChunk(chunk, mode, t, k) ==
    IF mode = "encrypt" THEN Success(encryptData(chunk, key, FreshIv(t, k)))
    ELSE decryptData(chunk, key)

\* the chunk promise rejects with e; Promise.all rejects on the first rejection,
\* which the task closure catches
ChunkRejected(t, k, e) ==
    LET S1 == [MachineState EXCEPT !.task[t].chunkSt[k] = "failed"]
    IN SetMachine(IF task[t].st = "running" THEN TaskCatch(S1, t, FileOf(t), e) ELSE S1)

\* await file.slice(start, end).arrayBuffer() rejects
ChunkReadFails(t, k) ==
    /\ ChunkPending(t, k)
    /\ ChunkRejected(t, k, Err("read failed", <<>>, ""))
    /\ UNCHANGED <<key, keyGen, call, progress, harness>>

\* processChunk throws because this.key is null
ChunkNoKey(t, k) ==
    /\ ChunkPending(t, k)
    /\ key = 0
    /\ ChunkRejected(t, k, Err("error processing file", FileOf(t).name, "not initialized"))
    /\ UNCHANGED <<key, keyGen, call, progress, harness>>

ChunkInput(t, k) == ReadChunk(FileOf(t), ChunkStarts(FileOf(t).size)[k])

\* encryptData / decryptData throws
ChunkTransformFails(t, k) ==
    /\ ChunkPending(t, k)
    /\ key # 0
    /\ ~processChunk(ChunkInput(t, k), call[t[1]].mode, t, k).ok
    /\ ChunkRejected(t, k, Err("error processing file", FileOf(t).name,
                                IF call[t[1]].mode = "encrypt" THEN "encryption failed"
                                ELSE "decryption failed"))
    /\ UNCHANGED <<key, keyGen, call, progress, harness>>

\* chunks.push(processedChunk); processedChunks++
PushChunk(tk, processedChunk) ==
    [tk EXCEPT !.chunks = Append(@, processedChunk), !.processedChunks = @ + 1]

\* the value the task's chunk callback passes to onProgress
ProgressValue(t, processedChunks) ==
    fileProgress(t[2] - 1, Len(call[t[1]].files),
                 chunkProgress(processedChunks, totalChunks(FileOf(t).size)))

\* the transform succeeds: push, count, report progress; throws is whether the
\* caller's onProgress throws (caught by processNextChunk and rethrown)
ChunkDone(t, k, throws) ==
    /\ ChunkPending(t, k)
    /\ key # 0
    /\ LET r == processChunk(ChunkInput(t, k), call[t[1]].mode, t, k)
           tk == PushChunk(task[t], r.data)
           S1 == [MachineState EXCEPT !.task[t] = [tk EXCEPT !.chunkSt[k] = "ok"]]
           S2 == [MachineState EXCEPT !.task[t] = [tk EXCEPT !.chunkSt[k] = "failed"]]
       IN /\ r.ok
          /\ throws => call[t[1]].cb
          /\ progress' = IF call[t[1]].cb
                         THEN [progress EXCEPT ![t[1]] =
                                 [count |-> @.count + 1,
                                  last |-> ProgressValue(t, tk.processedChunks)]]
                         ELSE progress
          /\ IF throws
             THEN SetMachine(IF task[t].st = "running"
                             THEN TaskCatch(S2, t, FileOf(t),
                                            Err("error processing file", FileOf(t).name,
                                                "callback error"))
                             ELSE S2)
             ELSE SetMachine(IF /\ task[t].st = "running"
                                /\ \A j \in 1..Len(tk.chunkSt) : j # k => tk.chunkSt[j] = "ok"
                             THEN TaskReturn(S1, t, FileOf(t))
                             ELSE S1)
    /\ UNCHANGED <<key, keyGen, call, harness>>

Next ==
    \/ InitializeKeyDone
    \/ InitializeKeyFails
    \/ ProcessFiles
    \/ \E c \in Calls : ProcessFilesResolve(c)
    \/ \E t \in TaskIds : ProcessQueueResume(t)
    \/ \E t \in TaskIds : \E k \in DOMAIN task[t].chunkSt : ChunkReadFails(t, k)
    \/ \E t \in TaskIds : \E k \in DOMAIN task[t].chunkSt : ChunkNoKey(t, k)
    \/ \E t \in TaskIds : \E k \in DOMAIN task[t].chunkSt : ChunkTransformFails(t, k)
    \/ \E t \in TaskIds : \E k \in DOMAIN task[t].chunkSt, throws \in BOOLEAN :
          ChunkDone(t, k, throws)

Spec == Init /\ [][Next]_vars


(***************************************************************************)
(* Fairness: a settled task's processQueue continuation runs, a settled    *)
(* Promise.all resumes processFiles, and every chunk operation settles.    *)
(***************************************************************************)
ChunkSettles ==
    \E t \in TaskIds : \E k \in DOMAIN task[t].chunkSt :
        \/ ChunkReadFails(t, k)
        \/ ChunkNoKey(t, k)
        \/ ChunkTransformFails(t, k)
        \/ \E throws \in BOOLEAN : ChunkDone(t, k, throws)

Fairness ==
    /\ WF_vars(\E c \in Calls : ProcessFilesResolve(c))
    /\ WF_vars(\E t \in TaskIds : ProcessQueueResume(t))
    /\ WF_vars(ChunkSettles)

FairSpec == Spec /\ Fairness

(***************************************************************************)
(* An instance whose key generation has completed.                         *)
(***************************************************************************)
InitReady ==
    /\ key = 1
    /\ keyGen = "ready"
    /\ processingQueue = <<>>
    /\ activeProcesses = 0
    /\ call = [c \in Calls |-> IdleCall]
    /\ results = [c \in Calls |-> <<>>]
    /\ task = [t \in TaskIds |-> NoTask]
    /\ progress = [c \in Calls |-> NoProgress]
    /\ harness = NoHarness

(***************************************************************************)
(* Round trip: one file is encrypted by a first call, and the file that    *)
(* call produced is decrypted by a second call on the same instance.       *)
(***************************************************************************)
RoundTripFiles == {File(SafeName, n, PlainData(n)) : n \in 0..MaxPlainLen}

EncryptCall ==
    /\ call[1].status = "idle"
    /\ \E f \in RoundTripFiles : ProcessFilesWith(1, List(<<f>>), "encrypt", FALSE)

\* new File([result], file.name, {type: file.type}) of the first call, passed on
ProducedFile(c, i) ==
    File(results[c][i].originalFile.name, Len(results[c][i].processedFile),
         results[c][i].processedFile)

DecryptCall ==
    /\ call[1].status = "resolved"
    /\ call[2].status = "idle"
    /\ results[1][1].status = "success"
    /\ ProcessFilesWith(2, List(<<ProducedFile(1, 1)>>), "decrypt", FALSE)

NextRoundTrip ==
    \/ EncryptCall
    \/ DecryptCall
    \/ \E c \in Calls : ProcessFilesResolve(c)
    \/ \E t \in TaskIds : ProcessQueueResume(t)
    \/ \E t \in TaskIds : \E k \in DOMAIN task[t].chunkSt : ChunkTransformFails(t, k)
    \/ \E t \in TaskIds : \E k \in DOMAIN task[t].chunkSt : ChunkDone(t, k, FALSE)

SpecRoundTrip == InitReady /\ [][NextRoundTrip]_vars

(***************************************************************************)
(* Overlapping calls: processFiles is called again while earlier calls are *)
(* still pending, with at most MaxFiles files per call and MaxFiles + 1    *)
(* files over all the calls.                                               *)
(***************************************************************************)
QueueKinds == {OneChunkFile, UnsafeFile}

SubmittedFiles == Cardinality({t \in TaskIds : task[t].st # "none"})

ProcessFilesOverlapping(c) ==
    /\ call[c].status = "idle"
    /\ \A d \in Calls : d < c => call[d].status # "idle"
    /\ \E fs \in SeqsUpTo(QueueKinds, Min(MaxFiles, MaxFiles + 1 - SubmittedFiles)) :
          /\ fs # <<>>
          /\ ProcessFilesWith(c, List(fs), "encrypt", FALSE)

NextQueue ==
    \/ \E c \in Calls : ProcessFilesOverlapping(c)
    \/ \E c \in Calls : ProcessFilesResolve(c)
    \/ \E t \in TaskIds : ProcessQueueResume(t)
    \/ \E t \in TaskIds : \E k \in DOMAIN task[t].chunkSt : ChunkReadFails(t, k)
    \/ \E t \in TaskIds : \E k \in DOMAIN task[t].chunkSt : ChunkDone(t, k, FALSE)

SpecQueue == InitReady /\ [][NextQueue]_vars

FairSpecQueue == SpecQueue /\ Fairness


(***************************************************************************)
(* Pre-flight: a first call is in flight when processFiles is called again *)
(* with an input that the pre-flight part accepts or rejects.              *)
(***************************************************************************)
PreflightInputs ==
    {NotAList, List(<<>>), List(<<OneChunkFile>>), List(<<HugeFile>>),
     List(<<HugeFile, EmptyFile>>), List(<<HugeFile, UnsafeFile>>),
     List(<<OneChunkFile, HugeFile>>)}

ProcessFilesSecond ==
    /\ call[1].status # "idle"
    /\ call[2].status = "idle"
    /\ \E input \in PreflightInputs, mode \in Modes, cb \in BOOLEAN :
          ProcessFilesWith(2, input, mode, cb)

NextPreflight ==
    \/ ProcessFilesOverlapping(1)
    \/ ProcessFilesSecond
    \/ \E c \in Calls : ProcessFilesResolve(c)
    \/ \E t \in TaskIds : ProcessQueueResume(t)
    \/ \E t \in TaskIds : \E k \in DOMAIN task[t].chunkSt, throws \in BOOLEAN :
          ChunkDone(t, k, throws)

SpecPreflight == InitReady /\ [][NextPreflight]_vars


(***************************************************************************)
(* The chunk codec on its own: encryptData is applied to a byte sequence   *)
(* under a key and a drawn nonce, and decryptData to what it returned.     *)
(***************************************************************************)
CodecBytes == {Plain(1), Plain(2)}
CodecKeys == {1, 2}
CodecIvs == {1, 2}

CodecInput(b, k) ==
    [st |-> "input", b |-> b, key |-> k, iv |-> 0, enc |-> <<>>, decKey |-> 0, dec |-> Failure]

InitCodec ==
    /\ key = 0
    /\ keyGen = "pending"
    /\ processingQueue = <<>>
    /\ activeProcesses = 0
    /\ call = [c \in Calls |-> IdleCall]
    /\ results = [c \in Calls |-> <<>>]
    /\ task = [t \in TaskIds |-> NoTask]
    /\ progress = [c \in Calls |-> NoProgress]
    /\ harness \in {CodecInput(b, k) : b \in SeqsUpTo(CodecBytes, MaxCodecLen), k \in CodecKeys}

\* encryptData(data, key), with the nonce crypto.getRandomValues draws
EncryptData ==
    /\ harness.st = "input"
    /\ \E iv \in CodecIvs :
          harness' = [harness EXCEPT !.st = "encrypted", !.iv = iv,
                                     !.enc = encryptData(harness.b, harness.key, iv)]
    /\ UNCHANGED <<key, keyGen, processingQueue, activeProcesses, call, results, task, progress>>

\* decryptData(data, key) on the output of encryptData, with any key
DecryptData ==
    /\ harness.st = "encrypted"
    /\ \E k \in CodecKeys :
          harness' = [harness EXCEPT !.st = "decrypted", !.decKey = k,
                                     !.dec = decryptData(harness.enc, k)]
    /\ UNCHANGED <<key, keyGen, processingQueue, activeProcesses, call, results, task, progress>>

NextCodec ==
    \/ EncryptData
    \/ DecryptData

SpecCodec == InitCodec /\ [][NextCodec]_vars


(***************************************************************************)
(* Chunk splitting on its own: processFileInChunks splits a file of a      *)
(* drawn size; the harness records the start offsets of the loop of line   *)
(* 129, what each processNextChunk reads, and totalChunks.                 *)
(***************************************************************************)
SplitInput(size) ==
    [st |-> "input", size |-> size, starts |-> <<>>, reads |-> <<>>, total |-> 0]

InitSplit ==
    /\ key = 0
    /\ keyGen = "pending"
    /\ processingQueue = <<>>
    /\ activeProcesses = 0
    /\ call = [c \in Calls |-> IdleCall]
    /\ results = [c \in Calls |-> <<>>]
    /\ task = [t \in TaskIds |-> NoTask]
    /\ progress = [c \in Calls |-> NoProgress]
    /\ harness \in {SplitInput(size) : size \in 0..MaxSplitSize}

\* the chunk promises of processFileInChunks and what each of them reads
SplitFile ==
    /\ harness.st = "input"
    /\ LET file == File(SafeName, harness.size, PlainData(harness.size))
           starts == ChunkStarts(file.size)
       IN harness' = [harness EXCEPT
                         !.st = "split",
                         !.starts = starts,
                         !.reads = [k \in 1..Len(starts) |-> ReadChunk(file, starts[k])],
                         !.total = totalChunks(file.size)]
    /\ UNCHANGED <<key, keyGen, processingQueue, activeProcesses, call, results, task, progress>>

NextSplit == SplitFile

SpecSplit == InitSplit /\ [][NextSplit]_vars


(***************************************************************************)
(* The pool size on its own: WORKER_POOL_SIZE is computed from a drawn     *)
(* navigator.hardwareConcurrency, which may be undefined.                  *)
(***************************************************************************)
NoHint == [defined |-> FALSE, v |-> 0]
Hint(v) == [defined |-> TRUE, v |-> v]

\* undefined || 4 and 0 || 4 are both 4: an undefined hint is passed on as 0
HintValue(h) == IF h.defined THEN h.v ELSE 0

PoolInput(h) == [st |-> "input", hint |-> h, pool |-> 0]

InitPool ==
    /\ key = 0
    /\ keyGen = "pending"
    /\ processingQueue = <<>>
    /\ activeProcesses = 0
    /\ call = [c \in Calls |-> IdleCall]
    /\ results = [c \in Calls |-> <<>>]
    /\ task = [t \in TaskIds |-> NoTask]
    /\ progress = [c \in Calls |-> NoProgress]
    /\ harness \in {PoolInput(NoHint)} \cup {PoolInput(Hint(v)) : v \in 0..MaxHint}

\* const WORKER_POOL_SIZE = Math.max(2, Math.min(navigator.hardwareConcurrency || 4, 8))
ComputePoolSize ==
    /\ harness.st = "input"
    /\ harness' = [harness EXCEPT !.st = "computed", !.pool = PoolSize(HintValue(harness.hint))]
    /\ UNCHANGED <<key, keyGen, processingQueue, activeProcesses, call, results, task, progress>>

NextPool == ComputePoolSize

SpecPool == InitPool /\ [][NextPool]_vars


(***************************************************************************)
(* The XOR implementation (src/unnamed/part_001): processFile compresses,  *)
(* XORs with a fixed 16-byte key and prepends a header of 8 zero bytes;    *)
(* decrypt mode drops 8 bytes, XORs and decompresses.  Here bytes are the  *)
(* integers 0..255.  The 'deflate' streams are zlib streams; the           *)
(* compressor is taken to emit one stored block (header 78 01, block       *)
(* header, LEN, NLEN, the data, Adler-32), which every inflater accepts.   *)
(***************************************************************************)
KEY == <<214, 2, 8, 0, 244, 254, 255, 63, 1, 0, 0, 0, 208, 202, 1, 0>>
HEADER_LENGTH == 8

RECURSIVE BitXor(_, _, _)
BitXor(a, b, bits) ==
    IF bits = 0 THEN 0
    ELSE (((a % 2) + (b % 2)) % 2) + 2 * BitXor(a \div 2, b \div 2, bits - 1)

\* a variant that starts the key at offset 1: view[i] ^ KEY[(i + 1) % KEY.length]
xorDataShifted(data) ==
    [j \in 1..Len(data) |-> BitXor(data[j], KEY[(j % Len(KEY)) + 1], 8)]

\* xorData: result[i] = view[i] ^ KEY[i % KEY.length], i from 0
xorData(data) ==
    [j \in 1..Len(data) |-> BitXor(data[j], KEY[((j - 1) % Len(KEY)) + 1], 8)]

\* Adler-32 of data, as the pair <<a, b>> of its two 16-bit sums
RECURSIVE Adler(_, _, _)
Adler(data, a, b) ==
    IF data = <<>> THEN <<a, b>>
    ELSE LET a1 == (a + Head(data)) % 65521
         IN Adler(Tail(data), a1, (b + a1) % 65521)

\* CompressionStream('deflate')
Compress(data) ==
    LET n == Len(data)
        ab == Adler(data, 1, 0)
    IN <<120, 1, 1, n % 256, n \div 256, 255 - (n % 256), 255 - (n \div 256)>>
         \o data
         \o <<ab[2] \div 256, ab[2] % 256, ab[1] \div 256, ab[1] % 256>>

\* DecompressionStream('deflate'): the data, or a failure on a malformed stream
Decompress(stream) ==
    LET n == Len(stream) - 11
    IN IF n < 0 THEN Failure
       ELSE LET data == SubSeq(stream, 8, 7 + n)
            IN IF stream = Compress(data) THEN Success(data) ELSE Failure

\* a variant whose decrypt branch drops 7 bytes instead of 8
processFileSliceShort(data, mode) ==
    IF mode = "decrypt"
    THEN Decompress(xorData(Slice(data, HEADER_LENGTH - 1, Len(data))))
    ELSE Success([j \in 1..HEADER_LENGTH |-> 0] \o xorData(Compress(data)))

\* processFile(file, mode) on the bytes of the file: the bytes of the returned
\* File, or a failure when a stream throws
processFile(data, mode) ==
    IF mode = "decrypt"
    THEN Decompress(xorData(Slice(data, HEADER_LENGTH, Len(data))))
    ELSE Success([j \in 1..HEADER_LENGTH |-> 0] \o xorData(Compress(data)))

XorBytes == {0, 255}

XorInput(b) == [st |-> "input", b |-> b, enc |-> Failure, dec |-> Failure]

InitXor ==
    /\ key = 0
    /\ keyGen = "pending"
    /\ processingQueue = <<>>
    /\ activeProcesses = 0
    /\ call = [c \in Calls |-> IdleCall]
    /\ results = [c \in Calls |-> <<>>]
    /\ task = [t \in TaskIds |-> NoTask]
    /\ progress = [c \in Calls |-> NoProgress]
    /\ harness \in {XorInput(b) : b \in SeqsUpTo(XorBytes, MaxXorLen)}

\* processFile(file, 'encrypt')
XorEncrypt ==
    /\ harness.st = "input"
    /\ harness' = [harness EXCEPT !.st = "encrypted", !.enc = processFile(harness.b, "encrypt")]
    /\ UNCHANGED <<key, keyGen, processingQueue, activeProcesses, call, results, task, progress>>

\* processFile(produced, 'decrypt') on the file the encrypt pass returned
XorDecrypt ==
    /\ harness.st = "encrypted"
    /\ harness.enc.ok
    /\ harness' = [harness EXCEPT !.st = "decrypted",
                                  !.dec = processFile(harness.enc.data, "decrypt")]
    /\ UNCHANGED <<key, keyGen, processingQueue, activeProcesses, call, results, task, progress>>

NextXor ==
    \/ XorEncrypt
    \/ XorDecrypt

SpecXor == InitXor /\ [][NextXor]_vars


(***************************************************************************)
(* Properties                                                              *)
(***************************************************************************)
Started(c) == call[c].status \in {"pending", "resolved"}
Resolved(c) == call[c].status = "resolved"
FileCount(c) == Len(call[c].files)
Slots(c) == 1..Len(call[c].files)
\* per-file validation as the claims state it: the size is above the per-file
\* cap, or the name has a character outside letters, digits, '-', '_', '.', space
FailsValidation(file) ==
    \/ file.size > MAX_FILE_SIZE
    \/ \E j \in 1..Len(file.name) : file.name[j] \notin SafeChars
Valid(c, i) == ~call[c].files[i].null /\ ~FailsValidation(call[c].files[i])
SomeChunkFailed(t) == \E k \in DOMAIN task[t].chunkSt : task[t].chunkSt[k] = "failed"
AllChunksOk(t) == \A k \in DOMAIN task[t].chunkSt : task[t].chunkSt[k] = "ok"

\* C1: a file encrypted by processFiles and then decrypted by processFiles on the
\* same instance comes back as a success result holding the original bytes.
C1_FileRoundTrip ==
    Resolved(2) =>
        /\ results[2][1].status = "success"
        /\ results[2][1].processedFile = call[1].files[1].data

\* the bytes processFileInChunks is to return: the processed chunks by start offset
InOrderOutput(t) ==
    Concat([k \in DOMAIN task[t].chunkSt |->
              processChunk(ChunkInput(t, k), call[t[1]].mode, t, k).data])

\* C2: the output of processFileInChunks is the concatenation of the processed
\* chunks in increasing start offset, whatever the order the chunks complete in.
C2_OrderedReassembly ==
    \A c \in Calls : Started(c) =>
        \A i \in Slots(c) :
            results[c][i].status = "success" =>
                results[c][i].processedFile = InOrderOutput(<<c, i>>)

\* C3: the results array has one slot per input file; no slot is ever assigned
\* twice, and when processFiles resolves every slot has been assigned exactly
\* once and holds the input file of its index.
C3_OneResultPerFile ==
    \A c \in Calls :
        /\ Started(c) =>
              /\ Len(results[c]) = FileCount(c)
              /\ \A i \in Slots(c) : results[c][i].writes <= 1
        /\ Resolved(c) =>
              \A i \in Slots(c) :
                  /\ results[c][i].writes = 1
                  /\ results[c][i].status \in {"success", "error"}
                  /\ results[c][i].originalFile = call[c].files[i]

C3_Witness ==
    /\ Resolved(1)
    /\ FileCount(1) = MaxFiles
    /\ FileCount(1) > WORKER_POOL_SIZE
    /\ results[1][1].status = "success"
    /\ results[1][2].status = "error"
    /\ results[1][MaxFiles].status = "success"

\* C4: when processFiles resolves, every file that fails validation has an error
\* result, and every valid file whose chunk operations all succeeded has a success
\* result, each at its own index.
C4_IndexIntegrity ==
    \A c \in Calls : Resolved(c) =>
        /\ Len(results[c]) = FileCount(c)
        /\ \A i \in Slots(c) :
              /\ ~Valid(c, i) => results[c][i].status = "error"
              /\ Valid(c, i) /\ AllChunksOk(<<c, i>>) => results[c][i].status = "success"

C4_Witness ==
    /\ Resolved(1)
    /\ FileCount(1) = 3
    /\ \E k \in Slots(1) :
          /\ ~Valid(1, k)
          /\ results[1][k].status = "error"
          /\ \A i \in Slots(1) \ {k} :
                /\ call[1].files[i].size > 0
                /\ results[1][i].status = "success"

\* C5: a list with a null entry (and a total size within the cap) is not rejected:
\* the call resolves, with an error result in the slot of the null entry.
C5_NullEntryIsPerFileFailure ==
    \A c \in Calls :
        (/\ call[c].status # "idle"
         /\ \E i \in Slots(c) : call[c].files[i].null
         /\ SumSizes(call[c].files) <= MAX_TOTAL_SIZE)
        => /\ call[c].status # "rejected"
           /\ Resolved(c) =>
                 \A i \in Slots(c) : call[c].files[i].null => results[c][i].status = "error"

\* C6: a call is rejected only by the pre-flight part; a call that got past it is
\* pending or resolved, and when it resolves every file that failed validation or
\* had a failing chunk operation (read, key, transform, progress callback) has an
\* error result without a processed file.
C6_FailuresBecomeResults ==
    \A c \in Calls :
        /\ call[c].status = "rejected" => Preflight(List(call[c].files)) # ""
        /\ Resolved(c) =>
              \A i \in Slots(c) :
                  (~Valid(c, i) \/ SomeChunkFailed(<<c, i>>)) =>
                      /\ results[c][i].status = "error"
                      /\ ~results[c][i].hasFile

C6_Witness ==
    /\ Resolved(1)
    /\ \E i \in Slots(1) :
          /\ results[1][i].status = "error"
          /\ results[1][i].error.cause = "callback error"
    /\ \E i \in Slots(1) :
          /\ results[1][i].status = "error"
          /\ results[1][i].error.msg = "read failed"

ActiveTasks == {t \in TaskIds : task[t].st \in {"running", "settled"}}

\* C7: activeProcesses counts the admitted tasks whose processQueue invocation has
\* not yet resumed, and never exceeds the pool size.
C7_PoolBound ==
    /\ activeProcesses = Cardinality(ActiveTasks)
    /\ activeProcesses <= WORKER_POOL_SIZE

C7_Witness ==
    /\ activeProcesses = WORKER_POOL_SIZE
    /\ Len(processingQueue) > 0
    /\ call[1].status = "pending"
    /\ call[2].status = "pending"
    /\ \E t \in TaskIds : task[t].st = "done"

\* no call is pending, no task is in the backlog or active
Quiescent ==
    /\ \A c \in Calls : call[c].status # "pending"
    /\ \A t \in TaskIds : task[t].st \in {"none", "done"}
    /\ processingQueue = <<>>
    /\ activeProcesses = 0

\* C8: under fairness, every call that got past the pre-flight part resolves and
\* every submitted task is admitted and settles: from some point on no call is
\* pending and no task is left in the backlog or active.
C8_Completion == <>[]Quiescent

C8_Witness ==
    /\ call[1].status = "pending"
    /\ FileCount(1) > WORKER_POOL_SIZE
    /\ Len(processingQueue) > 0
    /\ \E t \in TaskIds : task[t].st = "running" /\ ~AllChunksOk(t)

\* C9: when processFiles resolves with a progress callback supplied, the last
\* value passed to the callback is 100.
C9_ProgressReaches100 ==
    \A c \in Calls : (Resolved(c) /\ call[c].cb) =>
        /\ progress[c].count > 0
        /\ progress[c].last = Hundred

\* min((i/N)*100 + (f/N)*100, 100) with f = p/T
ClaimedProgress(i, N, p, T) ==
    RatMin(RatAdd(RatMul(Rat(i, N), 100), RatMul(Rat(p, T * N), 100)), Hundred)

\* C10: every value passed to the progress callback is in [0,100] and equals
\* min((i/N)*100 + (f/N)*100, 100) for a file index i and a fraction f = p/T of
\* that file's chunks.
C10_ProgressInRange ==
    \A c \in Calls : progress[c].count > 0 =>
        /\ RatLeq(Zero, progress[c].last)
        /\ RatLeq(progress[c].last, Hundred)
        /\ \E i \in Slots(c) : \E p \in 1..totalChunks(call[c].files[i].size) :
              progress[c].last =
                  ClaimedProgress(i - 1, FileCount(c), p, totalChunks(call[c].files[i].size))

C10_Witness ==
    /\ progress[1].count > 0
    /\ progress[1].last # Hundred
    /\ FileCount(1) = MaxFiles
    /\ \E t \in TaskIds : task[t].processedChunks = 2

\* C11: within one call, the values passed to the progress callback never
\* decrease: each invocation after the first passes a value that is at least the
\* value passed by the invocation before it.
C11_ProgressMonotonic ==
    [][\A c \in Calls :
          (progress[c].count > 0 /\ progress'[c].count = progress[c].count + 1) =>
              RatLeq(progress[c].last, progress'[c].last)]_vars

\* the underlying cause an error message carries: the cause a wrapped message
\* embeds, or the message itself when the error was not wrapped
CauseOf(e) == IF e.cause # "" THEN e.cause ELSE e.msg

\* C12: once a file's task has settled with a failed chunk operation, the file's
\* result has status error, carries no processed file, and its message names the
\* file and the underlying cause, whatever the other chunks of the file did.
C12_ChunkFailureFailsFile ==
    \A t \in TaskIds :
        (task[t].st \in {"settled", "done"} /\ SomeChunkFailed(t)) =>
            LET r == results[t[1]][t[2]]
            IN /\ r.status = "error"
               /\ ~r.hasFile
               /\ r.processedFile = <<>>
               /\ r.error.file = FileOf(t).name
               /\ CauseOf(r.error) # ""

\* the call c is made in this step
Called(c) == call[c].status = "idle" /\ call'[c].status # "idle"

\* this step pushes no task, admits none, validates and reads no file, writes no
\* result and invokes no progress callback
NoWork == UNCHANGED <<processingQueue, activeProcesses, task, results, progress>>

\* nothing was ever done for the call c
Untouched(c) ==
    /\ results[c] = <<>>
    /\ progress[c].count = 0
    /\ \A t \in TaskIds : t[1] = c => task[t] = NoTask

\* C13: a call whose files argument is no list or an empty list is rejected with
\* the invalid-input error, in a step that does no work; a call so rejected never
\* has a task, a result or a progress callback invocation.
C13_InvalidInputRejected ==
    [][\A c \in Calls :
          /\ (Called(c) /\ (~call'[c].isArray \/ call'[c].files = <<>>)) =>
                /\ call'[c].status = "rejected"
                /\ call'[c].error = "no files selected"
                /\ NoWork
          /\ (call[c].status = "rejected" /\ call[c].error = "no files selected") =>
                /\ Untouched(c)
                /\ call'[c] = call[c]]_vars

C13_Witness ==
    /\ call[2].status = "rejected"
    /\ ~call[2].isArray
    /\ call[2].cb
    /\ activeProcesses = WORKER_POOL_SIZE
    /\ Len(processingQueue) > 0

\* the files argument of the call made in this step is a non-empty list of files
CalledWithFiles(c) ==
    /\ Called(c)
    /\ call'[c].isArray
    /\ call'[c].files # <<>>
    /\ \A i \in 1..Len(call'[c].files) : ~call'[c].files[i].null

BatchTooLarge(c) ==
    call[c].status = "rejected" /\ call[c].error = "total size exceeds the 500MB limit"

\* C14: a call whose file sizes sum to more than the batch cap is rejected with
\* the batch-too-large error in a step that validates, reads and queues nothing,
\* and nothing is done for it afterwards; a call whose sizes sum to exactly the
\* cap is not rejected.
C14_BatchCap ==
    [][\A c \in Calls :
          /\ (CalledWithFiles(c) /\ SumSizes(call'[c].files) > MAX_TOTAL_SIZE) =>
                /\ BatchTooLarge(c)'
                /\ NoWork
          /\ (CalledWithFiles(c) /\ SumSizes(call'[c].files) <= MAX_TOTAL_SIZE) =>
                /\ call'[c].status = "pending"
                /\ Len(results'[c]) = Len(call'[c].files)
          /\ BatchTooLarge(c) =>
                /\ Untouched(c)
                /\ call'[c] = call[c]]_vars

C14_Witness ==
    /\ BatchTooLarge(2)
    /\ SumSizes(call[2].files) = MAX_TOTAL_SIZE + 1
    /\ activeProcesses = WORKER_POOL_SIZE
    /\ Len(processingQueue) > 0

\* C15: when the constructor's key generation has succeeded, no file of any call
\* has an error result saying that the key was not initialized.
C15_KeyInPlaceBeforeUse ==
    keyGen = "ready" =>
        \A c \in Calls : \A i \in 1..Len(results[c]) :
            results[c][i].error.cause # "not initialized"

\* C16: once the instance's key generation has failed, no call of processFiles
\* resolves with a result list.
C16_KeyFailurePropagates ==
    [][\A c \in Calls :
          keyGen = "failed" => ~(call[c].status = "pending" /\ call'[c].status = "resolved")]_vars

\* C17: while this.key is absent, no file has a success result.
C17_NoSuccessWithoutKey ==
    key = 0 =>
        \A c \in Calls : \A i \in 1..Len(results[c]) : results[c][i].status # "success"

\* C18: encryptData returns the nonce followed by the ciphertext with its tag,
\* and decryptData with the same key, splitting that output at the nonce length,
\* returns exactly the byte sequence that was encrypted, the empty one included.
C18_CodecRoundTrip ==
    /\ harness.st \in {"encrypted", "decrypted"} =>
          /\ Len(harness.enc) = IV_LENGTH + Len(harness.b) + TAG_LENGTH
          /\ SubSeq(harness.enc, 1, IV_LENGTH) = [j \in 1..IV_LENGTH |-> IvByte(harness.iv, j)]
          /\ SubSeq(harness.enc, IV_LENGTH + 1, Len(harness.enc))
                = GcmEncrypt(harness.b, harness.key, harness.iv)
    /\ (harness.st = "decrypted" /\ harness.decKey = harness.key) =>
          /\ harness.dec.ok
          /\ harness.dec.data = harness.b

C18_Witness ==
    /\ harness.st = "decrypted"
    /\ harness.decKey = harness.key
    /\ harness.b = <<>>
    /\ harness.dec = Success(<<>>)
    /\ Len(harness.enc) = IV_LENGTH + TAG_LENGTH

\* the file at index i of call c is a valid file of length zero
ZeroLength(c, i) == Valid(c, i) /\ call[c].files[i].size = 0

\* C19: a valid zero-length file has no chunk operation and no chunk callback
\* invocation; once its task has been admitted its result is a success with an
\* empty processed file, in either mode; a call of zero-length files only never
\* invokes the progress callback.
C19_ZeroLengthFile ==
    \A c \in Calls : Started(c) =>
        /\ \A i \in Slots(c) : ZeroLength(c, i) =>
              /\ task[<<c, i>>].st \in {"queued", "settled", "done"}
              /\ task[<<c, i>>].chunkSt = <<>>
              /\ task[<<c, i>>].chunks = <<>>
              /\ task[<<c, i>>].processedChunks = 0
              /\ task[<<c, i>>].st # "queued" =>
                    /\ results[c][i].status = "success"
                    /\ results[c][i].hasFile
                    /\ results[c][i].processedFile = <<>>
        /\ (\A i \in Slots(c) : ZeroLength(c, i)) => progress[c].count = 0

C19_Witness ==
    /\ Resolved(1)
    /\ call[1].mode = "decrypt"
    /\ call[1].cb
    /\ FileCount(1) = MaxFiles
    /\ \A i \in Slots(1) : ZeroLength(1, i) /\ results[1][i].status = "success"
    /\ progress[1].count = 0

\* the invocations of the chunk callback the task closure passes to
\* processFileInChunks: it is always passed, and it is called right after every
\* processedChunks++
ChunkCallbacks(t) == task[t].processedChunks

AllChunksSettled(t) ==
    /\ task[t].chunkSt # <<>>
    /\ \A k \in DOMAIN task[t].chunkSt : task[t].chunkSt[k] # "pending"

\* C20: when the chunk operations of a file of T chunks have all settled, the
\* file's chunk callback has been invoked exactly T times, whether the chunk
\* operations succeeded or failed.
C20_CallbackPerSettledChunk ==
    \A t \in TaskIds :
        AllChunksSettled(t) => ChunkCallbacks(t) = Len(task[t].chunkSt)

\* t1 was submitted before t2: by an earlier call, or earlier in the same list
SubmittedBefore(t1, t2) == t1[1] < t2[1] \/ (t1[1] = t2[1] /\ t1[2] < t2[2])

Admitted(t) == task[t].st \in {"running", "settled", "done"}

\* C21: tasks are admitted in submission order: the backlog holds the submitted
\* tasks that were not admitted, in submission order, and no task is admitted
\* while a task submitted before it is still in the backlog.
C21_FifoAdmission ==
    /\ \A j \in 1..Len(processingQueue) : task[processingQueue[j]].st = "queued"
    /\ \A t \in TaskIds :
          task[t].st = "queued" => \E j \in 1..Len(processingQueue) : processingQueue[j] = t
    /\ \A j, k \in 1..Len(processingQueue) :
          j < k => SubmittedBefore(processingQueue[j], processingQueue[k])
    /\ \A t1, t2 \in TaskIds :
          (SubmittedBefore(t1, t2) /\ Admitted(t2)) => task[t1].st # "queued"

C21_Witness ==
    /\ task[<<1, 1>>].st = "running"
    /\ task[<<1, 2>>].st = "done"
    /\ task[<<1, 3>>].st = "running"
    /\ processingQueue = <<<<2, 1>>>>

\* C24: whenever control is yielded, a non-empty backlog means that every pool
\* slot is taken: no task waits in the backlog while activeProcesses is below
\* the pool size.
C24_WorkConserving ==
    Len(processingQueue) > 0 => activeProcesses = WORKER_POOL_SIZE

C24_Witness ==
    /\ Len(processingQueue) = 1
    /\ activeProcesses = WORKER_POOL_SIZE
    /\ \E t \in TaskIds : task[t].st = "done"
    /\ \E t \in TaskIds : task[t].st = "settled"
    /\ \E t \in TaskIds : task[t].st = "running"

\* ceil(S / chunkSize): the least n with n * chunkSize >= S
CeilDiv(S, chunkSize) == CHOOSE n \in 0..S : n * chunkSize >= S /\ (n = 0 \/ (n - 1) * chunkSize < S)

\* C22: a file of size S > 0 is split into ceil(S / CHUNK_SIZE) chunks that start
\* at 0, CHUNK_SIZE, 2 * CHUNK_SIZE, ...; read one after the other they are the
\* file's bytes [0, S) without gap or overlap; every chunk but the last has
\* CHUNK_SIZE bytes and the last has S - (count - 1) * CHUNK_SIZE, at least 1 and
\* at most CHUNK_SIZE.
C22_ChunkSplitting ==
    (harness.st = "split" /\ harness.size > 0) =>
        LET S == harness.size
            count == Len(harness.starts)
        IN /\ count = CeilDiv(S, CHUNK_SIZE)
           /\ harness.total = count
           /\ Len(harness.reads) = count
           /\ \A k \in 1..count :
                 /\ harness.starts[k] = (k - 1) * CHUNK_SIZE
                 /\ harness.reads[k] =
                       [j \in 1..Len(harness.reads[k]) |-> Plain(harness.starts[k] + j)]
                 /\ k < count => Len(harness.reads[k]) = CHUNK_SIZE
           /\ Len(harness.reads[count]) = S - (count - 1) * CHUNK_SIZE
           /\ Len(harness.reads[count]) \in 1..CHUNK_SIZE
           /\ Concat(harness.reads) = PlainData(S)

C22_Witness ==
    /\ harness.st = "split"
    /\ harness.size = 2 * CHUNK_SIZE + 1
    /\ harness.starts = <<0, CHUNK_SIZE, 2 * CHUNK_SIZE>>
    /\ Len(harness.reads[3]) = 1

Clamp(x, lo, hi) == IF x < lo THEN lo ELSE IF x > hi THEN hi ELSE x

\* C23: the pool size is between 2 and 8; it is 4 when the hint is undefined or
\* 0, and the hint clamped to [2, 8] for every other hint.
C23_PoolSizeClamp ==
    harness.st = "computed" =>
        /\ harness.pool \in 2..8
        /\ (~harness.hint.defined \/ harness.hint.v = 0) => harness.pool = 4
        /\ (harness.hint.defined /\ harness.hint.v > 0) =>
              harness.pool = Clamp(harness.hint.v, 2, 8)

C23_Witness ==
    /\ harness.st = "computed"
    /\ ~harness.hint.defined
    /\ harness.pool = 4

\* the exclusive or of two bytes, stated bit by bit
XorOfBytes(a, b) ==
    LET bit(x, i) == (x \div (2 ^ i)) % 2
    IN CHOOSE r \in 0..255 : \A i \in 0..7 : bit(r, i) = (IF bit(a, i) = bit(b, i) THEN 0 ELSE 1)

\* C25: in the XOR implementation, encrypt mode returns 8 zero bytes followed by
\* the compressed data XORed with the 16-byte key repeated from offset 0; XORing
\* twice is the identity; and decrypt mode applied to that output returns the
\* original bytes, for every input length.
C25_XorRoundTrip ==
    /\ harness.st \in {"encrypted", "decrypted"} =>
          LET z == Compress(harness.b)
              out == harness.enc.data
          IN /\ harness.enc.ok
             /\ Len(out) = HEADER_LENGTH + Len(z)
             /\ \A j \in 1..HEADER_LENGTH : out[j] = 0
             /\ \A j \in 1..Len(z) :
                   out[HEADER_LENGTH + j] = XorOfBytes(z[j], KEY[((j - 1) % 16) + 1])
             /\ xorData(xorData(z)) = z
             /\ xorData(SubSeq(out, HEADER_LENGTH + 1, Len(out))) = z
    /\ harness.st = "decrypted" =>
          /\ harness.dec.ok
          /\ harness.dec.data = harness.b

C25_Witness ==
    /\ harness.st = "decrypted"
    /\ Len(harness.b) = MaxXorLen
    /\ Len(harness.enc.data) > HEADER_LENGTH + Len(KEY)
    /\ harness.dec = Success(harness.b)

=============================================================================
